---- MODULE Spec2Model ----
(***************************************************************************)
(* A model of nhx.js: exports.parse(str), the Newick/NHX parser.           *)
(*                                                                         *)
(* A JavaScript string is a sequence of one-character strings.  String     *)
(* positions are 0-based as in the source; substr converts to the 1-based  *)
(* positions of Sequences.  Objects live in a heap `nodes` (a sequence of  *)
(* records addressed by their index); the reference 0 stands for the       *)
(* JavaScript values undefined and null.  A TypeError raised by a property *)
(* access on undefined/null ends the call in pc = "threw".                 *)
(***************************************************************************)
EXTENDS Integers, Sequences, FiniteSets, TLC

VARIABLES
    src,        \* the forest the input was written from (<<>> for a raw input)
    str,        \* the argument of parse
    tmp,        \* parse's local `tmp` while it is a string
    pc,         \* position in parse
    i,          \* tokenize: loop index
    nodes,      \* the heap of node objects
    current,    \* tokenize: current
    textBegin,  \* tokenize: textBegin
    inNhxAttr,  \* tokenize: inNhxAttr
    prevNode,   \* tokenize: prevNode
    result      \* parse's local `tmp` once it is a node (0 = undefined)

vars == <<src, str, tmp, pc, i, nodes, current, textBegin, inNhxAttr, prevNode, result>>

-----------------------------------------------------------------------------
(* Bounds of the explored inputs.                                          *)

MaxPieces == 4

MaxNodes == 3

-----------------------------------------------------------------------------
(* JavaScript strings.                                                     *)

Min(a, b) == IF a < b THEN a ELSE b

Max(a, b) == IF a > b THEN a ELSE b

\* String.prototype.substr(start, length)
substr(s, start, n) ==
    LET s0  == IF start < 0 THEN Max(Len(s) + start, 0) ELSE Min(start, Len(s))
        cnt == Min(Max(n, 0), Len(s) - s0)
    IN  SubSeq(s, s0 + 1, s0 + cnt)

StartsWithAt(s, pat, k) ==
    /\ k + Len(pat) - 1 <= Len(s)
    /\ \A j \in 1..Len(pat) : s[k + j - 1] = pat[j]

\* String.prototype.indexOf(pat): 0-based, -1 when absent
indexOf(s, pat) ==
    LET hits == {k \in 1..(Len(s) + 1) : StartsWithAt(s, pat, k)}
    IN  IF hits = {} THEN -1
        ELSE (CHOOSE k \in hits : \A m \in hits : k <= m) - 1

\* String.prototype.split(sep), sep a non-empty string
RECURSIVE split(_, _)
split(s, sep) ==
    LET k == indexOf(s, sep)
    IN  IF k = -1 THEN <<s>>
        ELSE <<SubSeq(s, 1, k)>> \o split(SubSeq(s, k + Len(sep) + 1, Len(s)), sep)

-----------------------------------------------------------------------------
(* JavaScript values stored in node properties.                            *)

Undefined == [t |-> "undefined", s |-> <<>>, n |-> 0, d |-> 1]

NaN == [t |-> "NaN", s |-> <<>>, n |-> 0, d |-> 1]

Str(s) == [t |-> "string", s |-> s, n |-> 0, d |-> 1]

Infinity(sign) == [t |-> "Infinity", s |-> <<>>, n |-> sign, d |-> 1]

RECURSIVE GCD(_, _)
GCD(a, b) == IF b = 0 THEN a ELSE GCD(b, a % b)

Abs(a) == IF a < 0 THEN -a ELSE a

\* the number n/d, as a reduced fraction
Num(n, d) ==
    LET g == GCD(Abs(n), d)
    IN  [t |-> "number", s |-> <<>>, n |-> n \div g, d |-> d \div g]

RECURSIVE Pow10(_)
Pow10(k) == IF k = 0 THEN 1 ELSE 10 * Pow10(k - 1)

DigitChars == <<"0", "1", "2", "3", "4", "5", "6", "7", "8", "9">>

IsDigit(c) == \E k \in 1..Len(DigitChars) : DigitChars[k] = c

DigitVal(c) == (CHOOSE k \in 1..Len(DigitChars) : DigitChars[k] = c) - 1

\* number of leading characters of s, from 1-based position k on, that are digits
RECURSIVE DigitRun(_, _)
DigitRun(s, k) ==
    IF k <= Len(s) /\ IsDigit(s[k]) THEN 1 + DigitRun(s, k + 1) ELSE 0

RECURSIVE DigitsValue(_, _, _)
DigitsValue(s, k, cnt) ==
    IF cnt = 0 THEN 0
    ELSE DigitsValue(s, k, cnt - 1) * 10 + DigitVal(s[k + cnt - 1])

RECURSIVE SpaceRun(_, _)
SpaceRun(s, k) ==
    IF k <= Len(s) /\ s[k] = " " THEN 1 + SpaceRun(s, k + 1) ELSE 0

\* the global parseFloat: the longest prefix that is a decimal literal, after
\* leading white space; NaN when there is none
parseFloat(s) ==
    LET p0    == 1 + SpaceRun(s, 1)
        neg   == p0 <= Len(s) /\ s[p0] = "-"
        p1    == IF p0 <= Len(s) /\ s[p0] \in {"+", "-"} THEN p0 + 1 ELSE p0
        sign  == IF neg THEN -1 ELSE 1
        ni    == DigitRun(s, p1)
        dot   == p1 + ni <= Len(s) /\ s[p1 + ni] = "."
        nf    == IF dot THEN DigitRun(s, p1 + ni + 1) ELSE 0
        p2    == IF dot /\ ni + nf > 0 THEN p1 + ni + 1 + nf ELSE p1 + ni
        hasE  == p2 <= Len(s) /\ s[p2] \in {"e", "E"}
        eneg  == hasE /\ p2 + 1 <= Len(s) /\ s[p2 + 1] = "-"
        p3    == IF hasE /\ p2 + 1 <= Len(s) /\ s[p2 + 1] \in {"+", "-"}
                 THEN p2 + 2 ELSE p2 + 1
        ne    == IF hasE THEN DigitRun(s, p3) ELSE 0
        ex    == DigitsValue(s, p3, ne)
        mant  == DigitsValue(s, p1, ni) * Pow10(nf) + DigitsValue(s, p1 + ni + 1, nf)
    IN  IF StartsWithAt(s, <<"I", "n", "f", "i", "n", "i", "t", "y">>, p1)
        THEN Infinity(sign)
        ELSE IF ni + nf = 0 THEN NaN
        ELSE IF ne = 0 THEN Num(sign * mant, Pow10(nf))
        ELSE IF eneg THEN Num(sign * mant, Pow10(nf) * Pow10(ex))
        ELSE Num(sign * mant * Pow10(ex), Pow10(nf))

-----------------------------------------------------------------------------
(* Node objects.  `props` holds the properties translateNode adds (name,   *)
(* length and the NHX tags share one namespace: node[kv[0]] = kv[1], so a  *)
(* tag keyed "name" or "length" overwrites the field); branchset, parent   *)
(* and text are the properties tokenize works with, kept apart: no input   *)
(* explored here has a tag keyed branchset, parent or text.                *)

NoProps == [k \in {} |-> Undefined]

NameKey == <<"n", "a", "m", "e">>

LengthKey == <<"l", "e", "n", "g", "t", "h">>

\* node[key] = value
setProp(props, key, value) ==
    [k \in (DOMAIN props) \cup {key} |-> IF k = key THEN value ELSE props[k]]

\* { branchset: [] } with current.parent = parent (0: no parent property)
BranchNode(parent) ==
    [hasBranchset |-> TRUE, branchset |-> <<>>, parent |-> parent,
     hasText |-> FALSE, text |-> <<>>, props |-> NoProps]

\* { text: text }
TextNode(text) ==
    [hasBranchset |-> FALSE, branchset |-> <<>>, parent |-> 0,
     hasText |-> TRUE, text |-> text, props |-> NoProps]

-----------------------------------------------------------------------------
(* appendBoundaries                                                        *)

\* text.replace(/\)/g, ',)'): every character is rewritten on its own, so a long
\* text is rewritten half by half
RECURSIVE replaceCloseParens(_)
replaceCloseParens(text) ==
    IF text = <<>> THEN <<>>
    ELSE IF Len(text) = 1 THEN (IF text[1] = ")" THEN <<",", ")">> ELSE text)
    ELSE replaceCloseParens(SubSeq(text, 1, Len(text) \div 2))
         \o replaceCloseParens(SubSeq(text, Len(text) \div 2 + 1, Len(text)))

\* text.replace(/;$/, ',')
replaceFinalSemicolon(text) ==
    IF text # <<>> /\ text[Len(text)] = ";"
    THEN SubSeq(text, 1, Len(text) - 1) \o <<",">>
    ELSE text

appendBoundariesTwice(text) ==
    replaceFinalSemicolon(replaceCloseParens(replaceFinalSemicolon(replaceCloseParens(text))))

appendBoundaries(text) == replaceFinalSemicolon(replaceCloseParens(text))

-----------------------------------------------------------------------------
(* tokenize                                                                *)

isCharBeforeTextCloseBracketOffByOne(s, tb) == substr(s, tb, 1) = <<")">>

isCharBeforeTextCloseBracket(s, tb) == substr(s, tb - 1, 1) = <<")">>

commaIgnoredNever(flag) == FALSE

\* case ',': if (inNhxAttr) continue;
commaIgnored(flag) == flag

tokenizeReturnLast(heap, cur) ==
    IF heap[cur].branchset = <<>> THEN 0
    ELSE heap[cur].branchset[Len(heap[cur].branchset)]

\* return current.branchset[0]  (0: undefined, the branchset is empty)
tokenizeReturn(heap, cur) ==
    IF heap[cur].branchset = <<>> THEN 0 ELSE heap[cur].branchset[1]

Threw ==
    /\ pc' = "threw"
    /\ UNCHANGED <<src, str, tmp, i, nodes, current, textBegin, inNhxAttr, prevNode, result>>

AtChar(c) ==
    /\ pc = "tokenize"
    /\ i < Len(tmp)
    /\ tmp[i + 1] = c

TokenizeOpenParen ==
    /\ AtChar("(")
    /\ IF current = 0 THEN Threw
       ELSE /\ nodes' = Append([nodes EXCEPT ![current].branchset = Append(@, Len(nodes) + 1)],
                               BranchNode(current))
            /\ current' = Len(nodes) + 1
            /\ textBegin' = i + 1
            /\ i' = i + 1
            /\ UNCHANGED <<src, str, tmp, pc, inNhxAttr, prevNode, result>>

TokenizeCloseParen ==
    /\ AtChar(")")
    /\ IF current = 0 THEN Threw
       ELSE /\ prevNode' = current
            /\ current' = nodes[current].parent
            /\ textBegin' = i + 1
            /\ i' = i + 1
            /\ UNCHANGED <<src, str, tmp, pc, nodes, inNhxAttr, result>>

TokenizeComma ==
    /\ AtChar(",")
    /\ LET text == substr(tmp, textBegin, i - textBegin)
       IN  IF commaIgnored(inNhxAttr)
           THEN /\ i' = i + 1
                /\ UNCHANGED <<src, str, tmp, pc, nodes, current, textBegin, inNhxAttr,
                               prevNode, result>>
           ELSE IF isCharBeforeTextCloseBracket(tmp, textBegin)
           THEN IF prevNode = 0 THEN Threw
                ELSE /\ nodes' = [nodes EXCEPT ![prevNode].hasText = TRUE,
                                               ![prevNode].text = text]
                     /\ textBegin' = i + 1
                     /\ i' = i + 1
                     /\ UNCHANGED <<src, str, tmp, pc, current, inNhxAttr, prevNode, result>>
           ELSE IF current = 0 THEN Threw
                ELSE /\ nodes' = Append([nodes EXCEPT ![current].branchset =
                                                          Append(@, Len(nodes) + 1)],
                                        TextNode(text))
                     /\ textBegin' = i + 1
                     /\ i' = i + 1
                     /\ UNCHANGED <<src, str, tmp, pc, current, inNhxAttr, prevNode, result>>

TokenizeOpenBracket ==
    /\ AtChar("[")
    /\ inNhxAttr' = TRUE
    /\ i' = i + 1
    /\ UNCHANGED <<src, str, tmp, pc, nodes, current, textBegin, prevNode, result>>

TokenizeCloseBracket ==
    /\ AtChar("]")
    /\ inNhxAttr' = FALSE
    /\ i' = i + 1
    /\ UNCHANGED <<src, str, tmp, pc, nodes, current, textBegin, prevNode, result>>

TokenizeOther ==
    /\ pc = "tokenize"
    /\ i < Len(tmp)
    /\ tmp[i + 1] \notin {"(", ")", ",", "[", "]"}
    /\ i' = i + 1
    /\ UNCHANGED <<src, str, tmp, pc, nodes, current, textBegin, inNhxAttr, prevNode, result>>

TokenizeReturn ==
    /\ pc = "tokenize"
    /\ i >= Len(tmp)
    /\ IF current = 0 THEN Threw
       ELSE /\ result' = tokenizeReturn(nodes, current)
            /\ pc' = "deleteParentAttr"
            /\ UNCHANGED <<src, str, tmp, i, nodes, current, textBegin, inNhxAttr, prevNode>>

-----------------------------------------------------------------------------
(* deleteParentAttr                                                        *)

deleteParentAttrTopOnly(heap, id) ==
    IF heap[id].hasBranchset THEN [heap EXCEPT ![id].parent = 0] ELSE heap

RECURSIVE deleteParentAttr(_, _)
RECURSIVE deleteParentAttrEach(_, _, _)
\* node.branchset.forEach(deleteParentAttr)
deleteParentAttrEach(heap, bs, k) ==
    IF k > Len(bs) THEN heap
    ELSE deleteParentAttrEach(deleteParentAttr(heap, bs[k]), bs, k + 1)

deleteParentAttr(heap, id) ==
    IF heap[id].hasBranchset
    THEN [deleteParentAttrEach(heap, heap[id].branchset, 1) EXCEPT ![id].parent = 0]
    ELSE heap

DeleteParentAttr ==
    /\ pc = "deleteParentAttr"
    /\ IF result = 0 THEN Threw
       ELSE /\ nodes' = deleteParentAttr(nodes, result)
            /\ pc' = "translateNode"
            /\ UNCHANGED <<src, str, tmp, i, current, textBegin, inNhxAttr, prevNode, result>>

-----------------------------------------------------------------------------
(* translateNode                                                           *)

setNameAndLengthNoDefault(props, s) ==
    IF indexOf(s, <<":">>) # -1
    THEN LET parts == split(s, <<":">>)
         IN  setProp(setProp(props, NameKey, Str(parts[1])), LengthKey, parseFloat(parts[2]))
    ELSE setProp(setProp(props, NameKey, Str(s)), LengthKey, parseFloat(s))

setNameAndLength(props, s) ==
    IF indexOf(s, <<":">>) # -1
    THEN LET parts == split(s, <<":">>)
         IN  setProp(setProp(props, NameKey, Str(parts[1])), LengthKey, parseFloat(parts[2]))
    ELSE IF Len(s) # 0
    THEN setProp(setProp(props, NameKey, Str(s)), LengthKey, Num(0, 1))
    ELSE setProp(setProp(props, NameKey, Str(<<>>)), LengthKey, Num(0, 1))

\* kv = kv.split('='); node[kv[0]] = kv[1]
setNhxAttr(props, kv) ==
    LET parts == split(kv, <<"=">>)
    IN  setProp(props, parts[1], IF Len(parts) >= 2 THEN Str(parts[2]) ELSE Undefined)

RECURSIVE setNhxAttrsEach(_, _, _)
setNhxAttrsEach(props, kvs, k) ==
    IF k > Len(kvs) THEN props
    ELSE setNhxAttrsEach(setNhxAttr(props, kvs[k]), kvs, k + 1)

setNhxAttrsCoerce(props, text) ==
    IF Len(text) = 0 THEN props
    ELSE LET p == setNhxAttrsEach(props, split(text, <<":">>), 1)
         IN  [k \in DOMAIN p |->
                 IF p[k].t = "string" /\ k \notin {NameKey, LengthKey}
                    /\ parseFloat(p[k].s) # NaN
                 THEN parseFloat(p[k].s) ELSE p[k]]

setNhxAttrs(props, text) ==
    IF Len(text) = 0 THEN props
    ELSE setNhxAttrsEach(props, split(text, <<":">>), 1)

\* node.text.replace(/]$/g, '')
stripFinalBracket(text) ==
    IF text # <<>> /\ text[Len(text)] = "]" THEN SubSeq(text, 1, Len(text) - 1) ELSE text

NhxMarker == <<"[", "&", "&", "N", "H", "X", ":">>

\* the body of `if (node.hasOwnProperty('text'))`
translateText(node) ==
    LET text == stripFinalBracket(node.text)
        parts == split(text, NhxMarker)
    IN  [node EXCEPT
            !.hasText = FALSE,
            !.text = <<>>,
            !.props = IF indexOf(text, NhxMarker) # -1
                      THEN setNhxAttrs(setNameAndLength(node.props, parts[1]), parts[2])
                      ELSE setNameAndLength(node.props, text)]

RECURSIVE translateNode(_, _)
RECURSIVE translateNodeEach(_, _, _)
\* foreach(node.branchset, translateNode)
translateNodeEach(heap, bs, k) ==
    IF k > Len(bs) THEN heap
    ELSE translateNodeEach(translateNode(heap, bs[k]), bs, k + 1)

translateNode(heap, id) ==
    LET h1 == IF heap[id].hasBranchset
              THEN translateNodeEach(heap, heap[id].branchset, 1)
              ELSE heap
    IN  IF h1[id].hasText THEN [h1 EXCEPT ![id] = translateText(h1[id])] ELSE h1

TranslateNode ==
    /\ pc = "translateNode"
    /\ nodes' = translateNode(nodes, result)
    /\ pc' = "done"
    /\ UNCHANGED <<src, str, tmp, i, current, textBegin, inNhxAttr, prevNode, result>>

-----------------------------------------------------------------------------
(* parse                                                                   *)

\* tmp = appendBoundaries(tmp); then tokenize(tmp) sets up its locals
AppendBoundaries ==
    /\ pc = "appendBoundaries"
    /\ tmp' = appendBoundaries(tmp)
    /\ nodes' = <<BranchNode(0)>>
    /\ current' = 1
    /\ textBegin' = 0
    /\ inNhxAttr' = FALSE
    /\ prevNode' = 0
    /\ i' = 0
    /\ pc' = "tokenize"
    /\ UNCHANGED <<src, str, result>>

\* the state at `var tmp = str`
Start(input, from) ==
    /\ src = from
    /\ str = input
    /\ tmp = input
    /\ pc = "appendBoundaries"
    /\ i = 0
    /\ nodes = <<>>
    /\ current = 0
    /\ textBegin = 0
    /\ inNhxAttr = FALSE
    /\ prevNode = 0
    /\ result = 0

Next ==
    \/ AppendBoundaries
    \/ TokenizeOpenParen
    \/ TokenizeCloseParen
    \/ TokenizeComma
    \/ TokenizeOpenBracket
    \/ TokenizeCloseBracket
    \/ TokenizeOther
    \/ TokenizeReturn
    \/ DeleteParentAttr
    \/ TranslateNode

-----------------------------------------------------------------------------
(* Inputs: raw strings.                                                    *)

Pieces ==
    { <<"(">>, <<")">>, <<",">>, <<";">>, <<"[">>, <<"]">>, <<"A">>, <<":", "1">>,
      NhxMarker \o <<"a", "=", "b">> }

\* every concatenation of at most n pieces
RECURSIVE Concats(_)
Concats(n) ==
    IF n = 0 THEN {<<>>}
    ELSE LET shorter == Concats(n - 1)
         IN  shorter \cup {s \o p : s \in shorter, p \in Pieces}

RawInputs == Concats(MaxPieces)

-----------------------------------------------------------------------------
(* Inputs: strings written from a forest of labelled trees.  A label is a  *)
(* name, an optional ":length" (its text `len`, <<>> when absent, and the  *)
(* fraction num/den the text denotes) and an optional [&&NHX:...] comment  *)
(* given by its list of <<key, value>> tags.                               *)

Label(name, len, num, den, hasCmt, tags) ==
    [name |-> name, len |-> len, num |-> num, den |-> den,
     hasCmt |-> hasCmt, tags |-> tags]

Plain(name) == Label(name, <<>>, 0, 1, FALSE, <<>>)

Tenths(name, digit, num) == Label(name, <<"0", ".", digit>>, num, 10, FALSE, <<>>)

Tagged(l, tags) == [l EXCEPT !.hasCmt = TRUE, !.tags = tags]

GnTag == << <<"g", "n">>, <<"1", "0">> >>

BTag == << <<"b">>, <<"6", ",", " ", "7">> >>

PlainLabels == { Plain(<<"A">>), Plain(<<>>), Tenths(<<"B">>, "5", 5) }

NhxLabels ==
    { Tagged(Label(<<"C">>, <<"1">>, 1, 1, FALSE, <<>>), <<GnTag>>),
      Tagged(Plain(<<>>), <<GnTag, BTag>>) }

\* a tag value holding '=', and tag values holding a parenthesis
OddLabels ==
    { Tagged(Plain(<<"D">>), << << <<"a">>, <<"b", "=", "c">> >> >>),
      Tagged(Plain(<<"E">>), << << <<"a">>, <<"(">> >> >>),
      Tagged(Plain(<<"E">>), << << <<"a">>, <<"x", ")">> >> >>) }

Tree(label, kids) == [label |-> label, kids |-> kids]

\* the forests and the trees of exactly n nodes, labelled from L
RECURSIVE ForestsOf(_, _)
RECURSIVE TreesOf(_, _)
ForestsOf(n, L) ==
    IF n = 0 THEN {<<>>}
    ELSE UNION { {<<t>> \o f : t \in TreesOf(k, L), f \in ForestsOf(n - k, L)} : k \in 1..n }

TreesOf(n, L) == {Tree(l, f) : l \in L, f \in ForestsOf(n - 1, L)}

ForestsUpTo(n, L) == UNION {ForestsOf(k, L) : k \in 1..n}

\* (A:0.1,B:0.2,(C:0.3,D:0.4)E:0.5)F;
NewickExample ==
    << Tree(Plain(<<"F">>),
            << Tree(Tenths(<<"A">>, "1", 1), <<>>),
               Tree(Tenths(<<"B">>, "2", 2), <<>>),
               Tree(Tenths(<<"E">>, "5", 5),
                    << Tree(Tenths(<<"C">>, "3", 3), <<>>),
                       Tree(Tenths(<<"D">>, "4", 4), <<>>) >>) >>) >>

\* (A:0.1[&&NHX:gn=10],B:0.2[&&NHX:gn=10])F[&&NHX:gn=10];
NhxExample ==
    << Tree(Tagged(Plain(<<"F">>), <<GnTag>>),
            << Tree(Tagged(Tenths(<<"A">>, "1", 1), <<GnTag>>), <<>>),
               Tree(Tagged(Tenths(<<"B">>, "2", 2), <<GnTag>>), <<>>) >>) >>

\* (A:0.1[&&NHX:gn=10],B:0.2[&&NHX:gn=10],(C:0.3[&&NHX:gn=10],D:0.4[&&NHX:gn=10])E:0.5[&&NHX:gn=10])F[&&NHX:gn=10];
HeaderNhxExample ==
    << Tree(Tagged(Plain(<<"F">>), <<GnTag>>),
            << Tree(Tagged(Tenths(<<"A">>, "1", 1), <<GnTag>>), <<>>),
               Tree(Tagged(Tenths(<<"B">>, "2", 2), <<GnTag>>), <<>>),
               Tree(Tagged(Tenths(<<"E">>, "5", 5), <<GnTag>>),
                    << Tree(Tagged(Tenths(<<"C">>, "3", 3), <<GnTag>>), <<>>),
                       Tree(Tagged(Tenths(<<"D">>, "4", 4), <<GnTag>>), <<>>) >>) >>) >>

\* A:0.1[&&NHX:gn=0.2948622:b=6, 7, 10];
CommaExample ==
    << Tree(Tagged(Tenths(<<"A">>, "1", 1),
                   << << <<"g", "n">>, <<"0", ".", "2", "9", "4", "8", "6", "2", "2">> >>,
                      << <<"b">>, <<"6", ",", " ", "7", ",", " ", "1", "0">> >> >>),
            <<>>) >>

\* (A,,B:0.5)C;
EmptyLeafExample ==
    << Tree(Plain(<<"C">>),
            << Tree(Plain(<<"A">>), <<>>),
               Tree(Plain(<<>>), <<>>),
               Tree(Tenths(<<"B">>, "5", 5), <<>>) >>) >>

\* (((A,)B:0.5)C:1[&&NHX:gn=10],(,A))[&&NHX:gn=10:b=6, 7],B:0.5;
DeepExample ==
    << Tree(Tagged(Plain(<<>>), <<GnTag, BTag>>),
            << Tree(Tagged(Label(<<"C">>, <<"1">>, 1, 1, FALSE, <<>>), <<GnTag>>),
                    << Tree(Tenths(<<"B">>, "5", 5),
                            << Tree(Plain(<<"A">>), <<>>), Tree(Plain(<<>>), <<>>) >>) >>),
               Tree(Plain(<<>>),
                    << Tree(Plain(<<>>), <<>>), Tree(Plain(<<"A">>), <<>>) >>) >>),
       Tree(Tenths(<<"B">>, "5", 5), <<>>) >>

Forests ==
    ForestsUpTo(MaxNodes, PlainLabels \cup NhxLabels)
        \cup {NewickExample, NhxExample, HeaderNhxExample, CommaExample, EmptyLeafExample,
              DeepExample}

OddForests == ForestsUpTo(MaxNodes, OddLabels \cup {Plain(<<"A">>)})

RECURSIVE Join(_, _)
Join(strs, sep) ==
    IF strs = <<>> THEN <<>>
    ELSE IF Len(strs) = 1 THEN strs[1]
    ELSE strs[1] \o sep \o Join(Tail(strs), sep)

WriteTag(tag) == tag[1] \o <<"=">> \o tag[2]

WriteLabel(l) ==
    l.name
    \o (IF l.len # <<>> THEN <<":">> \o l.len ELSE <<>>)
    \o (IF l.hasCmt
        THEN NhxMarker \o Join([k \in 1..Len(l.tags) |-> WriteTag(l.tags[k])], <<":">>)
             \o <<"]">>
        ELSE <<>>)

RECURSIVE WriteTree(_)
WriteTree(t) ==
    IF t.kids = <<>> THEN WriteLabel(t.label)
    ELSE <<"(">> \o Join([k \in 1..Len(t.kids) |-> WriteTree(t.kids[k])], <<",">>)
         \o <<")">> \o WriteLabel(t.label)

WriteForest(f) == Join([k \in 1..Len(f) |-> WriteTree(f[k])], <<",">>) \o <<";">>

-----------------------------------------------------------------------------
(* Specifications.                                                         *)

Input(text, from) == [text |-> text, from |-> from]

Inputs ==
    {Input(s, <<>>) : s \in RawInputs}
        \cup {Input(WriteForest(f), f) : f \in Forests \cup OddForests}

\* parse applied to a raw string or to the text of a forest
Init == \E in \in Inputs : Start(in.text, in.from)

Spec == Init /\ [][Next]_vars

-----------------------------------------------------------------------------
(* Vocabulary of the properties.                                           *)

Reserved == {"(", ")", ",", ":", ";", "[", "]"}

Chars(s) == {s[k] : k \in 1..Len(s)}

\* a name and a tag key hold no structural character; a tag value may hold ','
WellFormedLabel(l) ==
    /\ Chars(l.name) \cap Reserved = {}
    /\ \A k \in 1..Len(l.tags) :
          /\ l.tags[k][1] # <<>>
          /\ Chars(l.tags[k][1]) \cap (Reserved \cup {"="}) = {}
          /\ Chars(l.tags[k][2]) \cap ((Reserved \ {","}) \cup {"="}) = {}
          /\ l.tags[k][1] \notin {NameKey, LengthKey}
          /\ \A m \in 1..Len(l.tags) : l.tags[m][1] = l.tags[k][1] => m = k

RECURSIVE TreeLabels(_)
TreeLabels(t) == {t.label} \cup UNION {TreeLabels(t.kids[k]) : k \in 1..Len(t.kids)}

ForestLabels(f) == UNION {TreeLabels(f[k]) : k \in 1..Len(f)}

\* src is a forest of well-formed Newick/NHX labels
WellFormed(f) == f # <<>> /\ \A l \in ForestLabels(f) : WellFormedLabel(l)

RECURSIVE LeafCount(_)
RECURSIVE LeafCountFrom(_, _)
LeafCountFrom(kids, k) ==
    IF k > Len(kids) THEN 0 ELSE LeafCount(kids[k]) + LeafCountFrom(kids, k + 1)

LeafCount(t) == IF t.kids = <<>> THEN 1 ELSE LeafCountFrom(t.kids, 1)

\* the nodes reachable from id through at most `fuel` branchset links
RECURSIVE ReachWithin(_, _, _)
ReachWithin(heap, id, fuel) ==
    {id} \cup (IF fuel = 0 THEN {}
               ELSE UNION {ReachWithin(heap, heap[id].branchset[k], fuel - 1) :
                             k \in 1..Len(heap[id].branchset)})

Reach(heap, id) == IF id = 0 THEN {} ELSE ReachWithin(heap, id, Len(heap))

\* the node of the heap and the tree of the input found at the same position
RECURSIVE Pairs(_, _, _)
Pairs(heap, id, t) ==
    {<<id, t>>}
        \cup UNION {Pairs(heap, heap[id].branchset[k], t.kids[k]) :
                      k \in 1..Min(Len(heap[id].branchset), Len(t.kids))}

ResultPairs(heap, id, f) == IF id = 0 \/ f = <<>> THEN {} ELSE Pairs(heap, id, f[1])

SameShape(node, t) ==
    /\ node.hasBranchset = (t.kids # <<>>)
    /\ Len(node.branchset) = Len(t.kids)

HasProp(node, key, value) == key \in DOMAIN node.props /\ node.props[key] = value

\* the value of the length property is the number num/den
IsNumber(node, num, den) ==
    /\ LengthKey \in DOMAIN node.props
    /\ node.props[LengthKey].t = "number"
    /\ node.props[LengthKey].n * den = num * node.props[LengthKey].d

NameAndLength(node, l) ==
    /\ HasProp(node, NameKey, Str(l.name))
    /\ IsNumber(node, l.num, l.den)

TagsCarried(node, l) ==
    \A k \in 1..Len(l.tags) : HasProp(node, l.tags[k][1], Str(l.tags[k][2]))

\* parenthesis depth after the first k characters
Depth(s, k) ==
    Cardinality({m \in 1..k : s[m] = "("}) - Cardinality({m \in 1..k : s[m] = ")"})

Balanced(s) == Depth(s, Len(s)) = 0 /\ \A k \in 1..Len(s) : Depth(s, k) >= 0

-----------------------------------------------------------------------------
(* C1: for a well-formed Newick string (one top-level node, no NHX         *)
(* comment) the returned tree mirrors the input: every group is one node   *)
(* with the group's entries as children in input order and the label       *)
(* after its ')' as name and length, every terminal label is one leaf,     *)
(* and the leaf count is the number of terminal labels.                    *)

IsNewick(f) ==
    /\ Len(f) = 1
    /\ WellFormed(f)
    /\ \A l \in ForestLabels(f) : ~l.hasCmt

-----------------------------------------------------------------------------
(* C2: for a well-formed NHX string, every node whose text carries a       *)
(* comment [&&NHX:k1=v1:...:kn=vn] is returned with every key ki set to    *)
(* the string vi (never a number), next to the name and the length of the  *)
(* text before the marker; leaves, inner nodes and the root alike.         *)

IsNhx(f) ==
    /\ Len(f) = 1
    /\ WellFormed(f)
    /\ \E l \in ForestLabels(f) : l.hasCmt

-----------------------------------------------------------------------------
(* C3: a comma met while inNhxAttr is set ends no text span: the step      *)
(* adds no node, changes no branchset and leaves textBegin alone; and in   *)
(* the tree returned for a well-formed input every node has the children   *)
(* the input gives it and every tag value is the text written, commas      *)
(* included.                                                               *)

CommaInCommentInert ==
    [][ /\ AtChar(",") /\ inNhxAttr =>
              /\ nodes' = nodes
              /\ textBegin' = textBegin
              /\ current' = current
              /\ prevNode' = prevNode
        /\ pc' = "done" /\ WellFormed(src') =>
              \A p \in ResultPairs(nodes', result', src') :
                  /\ SameShape(nodes'[p[1]], p[2])
                  /\ TagsCarried(nodes'[p[1]], p[2].label)
      ]_vars

\* [&&NHX:gn=0.2948622:b=6, 7, 10] has been parsed into one leaf
CommaValueParsed ==
    /\ pc = "done"
    /\ src = CommaExample
    /\ ~nodes[result].hasBranchset
    /\ Len(nodes[1].branchset) = 1
    /\ HasProp(nodes[result], <<"b">>, Str(<<"6", ",", " ", "7", ",", " ", "1", "0">>))

-----------------------------------------------------------------------------
(* C4: translateNode gives every node that has a text span a name and a    *)
(* length; when the label part of the span (the span without one final     *)
(* ']', up to the first [&&NHX: marker) holds no ':', the name is the      *)
(* label part and the length is 0; an empty label part gives name "" and   *)
(* length 0.                                                               *)

\* the span without one final ']'
Unbracketed(text) ==
    IF text # <<>> /\ text[Len(text)] = "]" THEN SubSeq(text, 1, Len(text) - 1) ELSE text

\* the prefixes of t that the marker follows
MarkerAt(t) == {k \in 0..Len(t) : StartsWithAt(t, NhxMarker, k + 1)}

LabelPart(text) ==
    LET t == Unbracketed(text)
    IN  IF MarkerAt(t) = {} THEN t
        ELSE SubSeq(t, 1, CHOOSE k \in MarkerAt(t) : \A m \in MarkerAt(t) : k <= m)

-----------------------------------------------------------------------------
(* C5: parse never raises an exception, whatever the input.                *)

NeverThrows == pc # "threw"

-----------------------------------------------------------------------------
(* C6: in every returned tree no node reachable from the result has a      *)
(* parent reference, the synthetic root is not reachable, and every        *)
(* reachable node is the child of at most one node, the result of none:    *)
(* the result is a finite tree.                                            *)

ParentsOf(heap, id, among) ==
    {q \in among \X (1..Len(heap)) :
        q[2] <= Len(heap[q[1]].branchset) /\ heap[q[1]].branchset[q[2]] = id}

NoParentLeak ==
    pc = "done" =>
        LET reached == Reach(nodes, result)
        IN  /\ \A id \in reached : nodes[id].parent = 0
            /\ 1 \notin reached
            /\ \A id \in reached : Cardinality(ParentsOf(nodes, id, reached)) <= 1
            /\ ParentsOf(nodes, result, reached) = {}

\* a returned tree with a nested group, whose parent link tokenize had set
NestedGroupReturned ==
    /\ pc = "done"
    /\ \E id \in Reach(nodes, result) \ {result} : nodes[id].hasBranchset

-----------------------------------------------------------------------------
(* C7: when the parentheses of the input are balanced, parse returns the   *)
(* first entry of the synthetic root's branchset (undefined when there is  *)
(* none); for a well-formed input with several top-level entries that is   *)
(* the first entry with its whole subtree, and no later top-level entry    *)
(* is part of the result.                                                  *)

-----------------------------------------------------------------------------
(* C8: the value of a tag is all the text of its pair after the first      *)
(* '=', further '=' included.                                              *)

\* labels whose tag values may hold '=' but nothing structural
EqualsInValues(f) ==
    /\ f # <<>>
    /\ \A l \in ForestLabels(f) : \A k \in 1..Len(l.tags) :
          /\ Chars(l.tags[k][1]) \cap (Reserved \cup {"="}) = {}
          /\ Chars(l.tags[k][2]) \cap (Reserved \ {","}) = {}

TagSplitOnce ==
    pc = "done" /\ EqualsInValues(src) =>
        \A p \in ResultPairs(nodes, result, src) : TagsCarried(nodes[p[1]], p[2].label)

-----------------------------------------------------------------------------
(* C9: whatever characters stand between '[' and ']' ('(' and ')'          *)
(* included), the returned tree has the nodes, nesting, child order,       *)
(* names and lengths of the input with an empty comment body, and the tag  *)
(* values are the comment's text.                                          *)

\* tag values hold no '=' (the case of C8)
NoEqualsInValues(f) ==
    /\ f # <<>>
    /\ \A l \in ForestLabels(f) : \A k \in 1..Len(l.tags) : "=" \notin Chars(l.tags[k][2])

CommentBodyVerbatim ==
    pc \in {"done", "threw"} /\ NoEqualsInValues(src) =>
        /\ pc = "done"
        /\ result # 0
        /\ \A p \in ResultPairs(nodes, result, src) :
              /\ SameShape(nodes[p[1]], p[2])
              /\ NameAndLength(nodes[p[1]], p[2].label)
              /\ TagsCarried(nodes[p[1]], p[2].label)

-----------------------------------------------------------------------------
(* C10: the step of parse that calls appendBoundaries turns str into str   *)
(* with a comma inserted before every ')' and a final ';' replaced by ',', *)
(* every other character kept in order; no later step changes the string,  *)
(* so the normalisation is applied exactly once.                           *)

\* number of ')' among the first k characters of s
Closings(s, k) == Cardinality({m \in 1..k : s[m] = ")"})

\* out holds every character of in, in order, at its position shifted by the
\* number of ')' up to it; a ',' stands before every ')' and for a final ';'
IsNormalized(in, out) ==
    /\ Len(out) = Len(in) + Closings(in, Len(in))
    /\ \A k \in 1..Len(in) :
          /\ out[k + Closings(in, k)] = IF k = Len(in) /\ in[k] = ";" THEN "," ELSE in[k]
          /\ in[k] = ")" => out[k + Closings(in, k) - 1] = ","

====
